---- MODULE Spec2Model ----
(***************************************************************************)
(* A model of the malloced crate: Malloced<T>, an owning pointer to a      *)
(* malloc-ed allocation that calls free on drop, and SliceIter<T>, the     *)
(* by-value iterator over a Malloced<[T]>.                                 *)
(*                                                                         *)
(* One behaviour follows one foreign allocation from its raw pointer       *)
(* through the owners that are constructed for it.  The calls the crate    *)
(* makes into the outside world (a pointee destructor run by               *)
(* ptr::drop_in_place, sys::free, an element handed to the caller) are     *)
(* recorded in `log`, in the order the code makes them.                    *)
(***************************************************************************)
EXTENDS Integers, Sequences, FiniteSets, TLC

\* ---------------------------------------------------------------- bounds

\* Width of usize in the model (the crate's pointer arithmetic wraps at it).
UsizeBits == 8
\* Longest slice / str adopted.
MaxLen == 3
\* Most iterator steps (next / next_back calls) taken on one SliceIter.
MaxSteps == 4
\* Owner slots of the caller (places where a handle or iterator can live).
MaxOwners == 2

WordMod == 2 ^ UsizeBits

\* Concrete pointee types (the T of Malloced<T>, U of downcast::<U>).
Types == {"A", "B"}
\* The two dynamic types the crate can erase to.
DynTypes == {"dynAny", "dynAnySendSync"}
\* mem::size_of::<T>() of the slice element types modelled (0 is a ZST).
ElemSizes == {0, 1, 2}
\* Addresses the foreign allocator may have returned.
Bases == {1, 16}

NoOwner == [kind |-> "none"]
NoRaw == [ty |-> "none"]
NoVt == "-"

VARIABLES
    alloc,    \* the allocation: base address, pointee kind, element count and size,
              \* and the elements whose destructor unwinds (fixed per behaviour)
    owners,   \* owner slot -> the Malloced / SliceIter living there, or NoOwner
    raw,      \* the raw pointer the caller holds (not owned by any handle), or NoRaw
    log,      \* destructor runs, unwinds, yields and sys::free calls, in order
    call,     \* the last operation, the slot it acted on and what it returned
    steps,    \* iterator steps taken so far
    status    \* "running", or "aborted" once a second unwind ended the process

vars == <<alloc, owners, raw, log, call, steps, status>>

Slots == 1..MaxOwners

\* ------------------------------------------------------------- the values

\* A (possibly fat) pointer: address, static pointee type, and its metadata
\* (the vtable's type identity for a dyn pointer, the length for a slice or str).
Ptr(addr, ty, vt, len) == [addr |-> addr, ty |-> ty, vt |-> vt, len |-> len]

\* struct Malloced<T> { ptr: NonNull<T>, _marker }.  `pinned` marks Pin<Malloced<T>>.
Malloced(p, pinned) ==
    [kind |-> "Malloced", addr |-> p.addr, ty |-> p.ty, vt |-> p.vt, len |-> p.len,
     pinned |-> pinned, buf |-> 0, ptr |-> 0, end |-> 0]

\* struct SliceIter<T> { buf, marker, ptr, end }.
SliceIter(buf, ptr, end) ==
    [kind |-> "SliceIter", addr |-> 0, ty |-> "iter", vt |-> NoVt, len |-> 0,
     pinned |-> FALSE, buf |-> buf, ptr |-> ptr, end |-> end]

\* this.ptr of a handle.
PtrOf(h) == Ptr(h.addr, h.ty, h.vt, h.len)

\* mem::size_of::<T>() of the slice's element type.
size_of == alloc.size

\* What the caller saw of the last call: the operation and its type argument, the
\* slot of the owner it consumed or borrowed (0: none), the slot of the owner it
\* returned (0: none), its outcome, the address or element it returned, and the
\* operation called before it.
Call(op, arg, slot, out, res, ret) ==
    [op |-> op, arg |-> arg, slot |-> slot, out |-> out, res |-> res, ret |-> ret,
     prev |-> call.op]

\* ------------------------------------------------------ the calls recorded

DropEv(i) == <<"drop", i>>
PanicEv(i) == <<"panic", i>>
YieldEv(op, i) == <<op, i>>
FreeEv(a) == <<"free", a>>

\* ----------------------------------------------------------------- Init

\* The bytes a C buffer is made of: the terminator, 'h' and 'i'.
ByteVals == {0, 104, 105}

\* The C buffers adopted by Malloced::<CStr>::from_ptr: up to MaxLen bytes with a
\* zero byte among them (the safety contract of CStr::from_ptr).
CBuffers ==
    UNION { { bs \in [1..l -> ByteVals] : \E j \in 1..l : bs[j] = 0 } : l \in 1..MaxLen }

\* The allocations a behaviour can start from: a sized value of type A or B,
\* a str, a slice of n elements of one of the element sizes, or a C buffer.
Allocs ==
    { [base |-> b, kind |-> "val", tid |-> t, n |-> 1, size |-> 1, panics |-> p,
       bytes |-> <<>>] :
        b \in Bases, t \in Types, p \in SUBSET {0} }
    \cup
    { [base |-> b, kind |-> "str", tid |-> "str", n |-> n, size |-> 1, panics |-> {},
       bytes |-> <<>>] :
        b \in Bases, n \in 0..MaxLen }
    \cup
    UNION { { [base |-> b, kind |-> "slice", tid |-> "slice", n |-> n, size |-> s,
               panics |-> p, bytes |-> <<>>] :
                b \in Bases, s \in ElemSizes, p \in SUBSET (0..(n-1)) } :
            n \in 0..MaxLen }
    \cup
    { [base |-> b, kind |-> "cstr", tid |-> "c_char", n |-> Len(bs), size |-> 1,
       panics |-> {}, bytes |-> bs] :
        b \in Bases, bs \in CBuffers }

\* The raw pointer the foreign code hands over for an allocation.
RawOf(a) ==
    IF a.kind \in {"val", "cstr"} THEN Ptr(a.base, a.tid, NoVt, 0)
    ELSE Ptr(a.base, a.kind, NoVt, a.n)

Init ==
    /\ alloc \in Allocs
    /\ owners = [s \in Slots |-> NoOwner]
    /\ raw = RawOf(alloc)
    /\ log = <<>>
    /\ call = [op |-> "init", arg |-> "-", slot |-> 0, out |-> 0, res |-> "ok", ret |-> 0,
               prev |-> "init"]
    /\ steps = 0
    /\ status = "running"

\* ------------------------------------------------------- moving ownership

\* A forget that leaves the owner in place (the handle is copied, not moved).
forget_Keep(o, i) == o

\* mem::forget(this) / ManuallyDrop::new(this): the owner in slot i ends without
\* its Drop running.
forget(o, i) == [o EXCEPT ![i] = NoOwner]

\* The slot a returned owner is bound to: the caller's first empty one.
FreeSlot(o) == CHOOSE s \in Slots : o[s] = NoOwner /\ \A t \in Slots : t < s => o[t] # NoOwner

HasFree(o) == \E s \in Slots : o[s] = NoOwner

\* A returned owner is moved into the caller's slot.
Place(o, h) == [o EXCEPT ![FreeSlot(o)] = h]

IsHandle(i) == owners[i].kind = "Malloced"
IsIter(i) == owners[i].kind = "SliceIter"

\* --------------------------------------------------------- ptr::drop_in_place

\* ptr::drop_in_place over the elements `idxs` (in order).  An element in
\* `panics` unwinds out of its destructor; the slice drop glue then still drops
\* the elements after it, and a second unwind during that cleanup aborts.
RECURSIVE drop_in_place(_, _, _)
drop_in_place(idxs, panics, unwinding) ==
    IF idxs = <<>> THEN [ev |-> <<>>, res |-> IF unwinding THEN "unwind" ELSE "ok"]
    ELSE LET i == Head(idxs) IN
         IF i \in panics
         THEN IF unwinding
              THEN [ev |-> <<DropEv(i), PanicEv(i)>>, res |-> "abort"]
              ELSE LET r == drop_in_place(Tail(idxs), panics, TRUE)
                   IN [ev |-> <<DropEv(i), PanicEv(i)>> \o r.ev, res |-> r.res]
         ELSE LET r == drop_in_place(Tail(idxs), panics, unwinding)
              IN [ev |-> <<DropEv(i)>> \o r.ev, res |-> r.res]

\* The elements of the pointee of a handle: the len elements of a slice, str or
\* CStr, the one value otherwise.
PointeeElems(h) ==
    IF h.ty \in {"slice", "str", "CStr"} THEN [j \in 1..h.len |-> j - 1] ELSE <<0>>

\* ------------------------------------------------------------- Malloced<T>

\* Malloced::from_raw(ptr): wraps the pointer, nothing else.
from_raw ==
    /\ status = "running"
    /\ raw # NoRaw
    /\ HasFree(owners)
    /\ owners' = Place(owners, Malloced(raw, FALSE))
    /\ raw' = NoRaw
    /\ call' = Call("from_raw", "-", 0, FreeSlot(owners), "ok", raw.addr)
    /\ UNCHANGED <<alloc, log, steps, status>>

\* A leak without ManuallyDrop: `this` is dropped when the function returns.
LeakAs_NoManuallyDrop(op, i) ==
    /\ status = "running"
    /\ IsHandle(i)
    /\ ~owners[i].pinned
    /\ owners' = [owners EXCEPT ![i] = NoOwner]
    /\ raw' = PtrOf(owners[i])
    /\ log' = log \o <<DropEv(0), FreeEv(owners[i].addr)>>
    /\ call' = Call(op, "-", i, 0, "ok", owners[i].addr)
    /\ UNCHANGED <<alloc, steps, status>>

\* Malloced::leak(this): &mut *ManuallyDrop::new(this).ptr.as_ptr().
LeakAs(op, i) ==
    /\ status = "running"
    /\ IsHandle(i)
    /\ ~owners[i].pinned
    /\ owners' = forget(owners, i)
    /\ raw' = PtrOf(owners[i])
    /\ call' = Call(op, "-", i, 0, "ok", owners[i].addr)
    /\ UNCHANGED <<alloc, log, steps, status>>

leak(i) == LeakAs("leak", i)

\* Malloced::into_raw(this): Self::leak(this).
into_raw(i) == LeakAs("into_raw", i)

\* Malloced::into_pin(this): Pin::new_unchecked(this).
into_pin(i) ==
    /\ status = "running"
    /\ IsHandle(i)
    /\ ~owners[i].pinned
    /\ owners' = [owners EXCEPT ![i] = Malloced(PtrOf(owners[i]), TRUE)]
    /\ call' = Call("into_pin", "-", i, i, "ok", owners[i].addr)
    /\ UNCHANGED <<alloc, raw, log, steps, status>>

\* A cast that attaches no type identity to the dynamic pointer.
CastDyn_NoVtable(p, dyn) == Ptr(p.addr, dyn, NoVt, 0)

\* The pointer cast of into_any / into_any_send: `as *mut dyn Any` attaches the
\* vtable of the static type T.
CastDyn(p, dyn) == Ptr(p.addr, dyn, p.ty, 0)

\* Malloced::into_any / into_any_send: cast, mem::forget(this), from_raw(ptr).
IntoAnyAs(op, dyn, i) ==
    /\ status = "running"
    /\ IsHandle(i)
    /\ ~owners[i].pinned
    /\ owners[i].ty \in Types
    /\ LET ptr == CastDyn(PtrOf(owners[i]), dyn)
           o1 == forget(owners, i)
       IN /\ HasFree(o1)
          /\ owners' = Place(o1, Malloced(ptr, FALSE))
          /\ call' = Call(op, "-", i, FreeSlot(o1), "ok", ptr.addr)
    /\ UNCHANGED <<alloc, raw, log, steps, status>>

into_any(i) == IntoAnyAs("into_any", "dynAny", i)

into_any_send(i) == IntoAnyAs("into_any_send", "dynAnySendSync", i)

\* A type test that accepts every U.
is_Any(h, U) == TRUE

\* self.is::<U>(): the vtable's type identity against U.
is(h, U) == h.vt = U

\* Malloced<dyn Any ...>::downcast::<U>(self).
downcast(i, U) ==
    /\ status = "running"
    /\ IsHandle(i)
    /\ ~owners[i].pinned
    /\ owners[i].ty \in DynTypes
    /\ IF is(owners[i], U)
       THEN LET p == PtrOf(owners[i])
                o1 == forget(owners, i)
            IN /\ HasFree(o1)
               /\ owners' = Place(o1, Malloced(Ptr(p.addr, U, NoVt, 0), FALSE))
               /\ call' = Call("downcast", U, i, FreeSlot(o1), "Ok", p.addr)
       ELSE /\ owners' = owners
            /\ call' = Call("downcast", U, i, i, "Err", owners[i].addr)
    /\ UNCHANGED <<alloc, raw, log, steps, status>>

\* From<Malloced<str>> for Malloced<[u8]>: from_raw(into_raw(m) as *mut [u8]).
from_str(i) ==
    /\ status = "running"
    /\ IsHandle(i)
    /\ ~owners[i].pinned
    /\ owners[i].ty = "str"
    /\ LET p == PtrOf(owners[i])
           o1 == forget(owners, i)
       IN /\ HasFree(o1)
          /\ owners' = Place(o1, Malloced(Ptr(p.addr, "slice", NoVt, p.len), FALSE))
          /\ call' = Call("from_str", "-", i, FreeSlot(o1), "ok", p.addr)
    /\ UNCHANGED <<alloc, raw, log, steps, status>>

\* A drop that frees first and destroys the pointee afterwards.
drop_Malloced_FreeFirst(i) ==
    /\ status = "running"
    /\ IsHandle(i)
    /\ LET h == owners[i]
           d == drop_in_place(PointeeElems(h), alloc.panics, FALSE)
       IN /\ log' = log \o <<FreeEv(h.addr)>> \o d.ev
          /\ status' = IF d.res = "abort" THEN "aborted" ELSE "running"
          /\ call' = Call("drop", "-", i, 0, d.res, h.addr)
    /\ owners' = [owners EXCEPT ![i] = NoOwner]
    /\ UNCHANGED <<alloc, raw, steps>>

\* mem::size_of::<*mut CStr>() and mem::size_of::<*mut c_char>(), in words: a
\* pointer to CStr carries a length.
size_of_ptr_CStr == 2
size_of_ptr_c_char == 1

\* The length that CStr::from_ptr finds: the bytes before the first zero byte.
strlen(bs) == CHOOSE k \in 0..(Len(bs) - 1) : bs[k + 1] = 0 /\ \A j \in 1..k : bs[j] # 0

\* CStr::from_ptr(ptr).to_bytes_with_nul(): the bytes up to and with the zero byte.
to_bytes_with_nul(bs) == SubSeq(bs, 1, strlen(bs) + 1)

\* CStr::to_bytes of the CStr a handle points to: its bytes without the last one.
to_bytes(h) == SubSeq(alloc.bytes, 1, h.len - 1)

\* A from_ptr that takes the length without the terminator.
from_ptr_NoNul ==
    /\ status = "running"
    /\ raw # NoRaw
    /\ raw.ty = "c_char"
    /\ HasFree(owners)
    /\ owners' = Place(owners, Malloced(Ptr(raw.addr, "CStr", NoVt, strlen(alloc.bytes)), FALSE))
    /\ raw' = NoRaw
    /\ call' = Call("from_ptr", "-", 0, FreeSlot(owners), "ok", raw.addr)
    /\ UNCHANGED <<alloc, log, steps, status>>

\* Malloced::<CStr>::from_ptr(ptr): the length is a dummy 1 when a pointer to CStr
\* is thin, the length of to_bytes_with_nul otherwise; then from_raw of the slice
\* pointer cast to *mut CStr.
from_ptr ==
    /\ status = "running"
    /\ raw # NoRaw
    /\ raw.ty = "c_char"
    /\ HasFree(owners)
    /\ LET n == IF size_of_ptr_CStr = size_of_ptr_c_char THEN 1
                ELSE Len(to_bytes_with_nul(alloc.bytes))
           ptr == Ptr(raw.addr, "CStr", NoVt, n)
       IN /\ owners' = Place(owners, Malloced(ptr, FALSE))
          /\ call' = Call("from_ptr", "-", 0, FreeSlot(owners), "ok", ptr.addr)
    /\ raw' = NoRaw
    /\ UNCHANGED <<alloc, log, steps, status>>

\* A drop of the handle that frees from a guard, as SliceIter's teardown does:
\* free is called also when the pointee's destructor unwinds.
drop_Malloced_Guarded(i) ==
    /\ status = "running"
    /\ IsHandle(i)
    /\ LET h == owners[i]
           d == drop_in_place(PointeeElems(h), alloc.panics, FALSE)
       IN /\ log' = IF d.res = "abort" THEN log \o d.ev
                    ELSE log \o d.ev \o <<FreeEv(h.addr)>>
          /\ status' = IF d.res = "abort" THEN "aborted" ELSE "running"
          /\ call' = Call("drop", "-", i, 0, d.res, h.addr)
    /\ owners' = forget(owners, i)
    /\ UNCHANGED <<alloc, raw, steps>>

\* Drop for Malloced<T>: ptr::drop_in_place(ptr), then sys::free(ptr).  When the
\* pointee's destructor unwinds, the call of free is not reached.
drop_Malloced(i) ==
    /\ status = "running"
    /\ IsHandle(i)
    /\ LET h == owners[i]
           d == drop_in_place(PointeeElems(h), alloc.panics, FALSE)
       IN /\ log' = IF d.res = "ok" THEN log \o d.ev \o <<FreeEv(h.addr)>>
                    ELSE log \o d.ev
          /\ status' = IF d.res = "abort" THEN "aborted" ELSE "running"
          /\ call' = Call("drop", "-", i, 0, d.res, h.addr)
    /\ owners' = forget(owners, i)
    /\ UNCHANGED <<alloc, raw, steps>>

\* ------------------------------------------------------------ SliceIter<T>

\* (a as usize).wrapping_add(k) / wrapping_sub(k): pointer arithmetic modulo the
\* word size.
wrapping_add(a, k) == (a + k) % WordMod
wrapping_sub(a, k) == (a - k) % WordMod

\* ExactSizeIterator::len: the byte distance of ptr and end, divided by the
\* element size when checked_div has a result (the size is not zero).
len(it) ==
    LET diff == wrapping_sub(it.end, it.ptr)
    IN IF size_of # 0 THEN diff \div size_of ELSE diff

\* The element a pointer into the buffer stands for: its distance from buf in
\* elements (in bytes for a zero-sized type, whose pointers only count).
ElemAt(it, a) ==
    LET off == wrapping_sub(a, it.buf)
    IN IF size_of # 0 THEN off \div size_of ELSE off

\* The remaining slice taken from buf instead of ptr.
as_raw_mut_slice_FromBuf(it) == [j \in 1..len(it) |-> j - 1]

\* SliceIter::as_raw_mut_slice: slice::from_raw_parts_mut(self.ptr, self.len()),
\* as the sequence of the elements it covers.
as_raw_mut_slice(it) ==
    [j \in 1..len(it) |-> wrapping_add(ElemAt(it, it.ptr), j - 1)]

\* An into_iter that uses ptr.add(len) for every element size: for a zero-sized
\* type end is then ptr itself.
into_iter_AddOnly(i) ==
    /\ status = "running"
    /\ IsHandle(i)
    /\ ~owners[i].pinned
    /\ owners[i].ty = "slice"
    /\ LET buf == owners[i].addr
           n == owners[i].len
           o1 == [owners EXCEPT ![i] = NoOwner]
       IN /\ HasFree(o1)
          /\ owners' = Place(o1, SliceIter(buf, buf, buf + n * size_of))
          /\ call' = Call("into_iter", "-", i, FreeSlot(o1), "ok", buf)
    /\ UNCHANGED <<alloc, raw, log, steps, status>>

\* IntoIterator for Malloced<[T]>: buf = self.ptr, len = self.len(),
\* mem::forget(self), end = ptr + len bytes (ZST, wrapping) or ptr.add(len).
into_iter(i) ==
    /\ status = "running"
    /\ IsHandle(i)
    /\ ~owners[i].pinned
    /\ owners[i].ty = "slice"
    /\ LET buf == owners[i].addr
           n == owners[i].len
           o1 == forget(owners, i)
           ptr == buf
           end == IF size_of = 0 THEN wrapping_add(ptr, n) ELSE ptr + n * size_of
       IN /\ HasFree(o1)
          /\ owners' = Place(o1, SliceIter(buf, ptr, end))
          /\ call' = Call("into_iter", "-", i, FreeSlot(o1), "ok", buf)
    /\ UNCHANGED <<alloc, raw, log, steps, status>>

\* Iterator::next.
next(i) ==
    /\ status = "running"
    /\ IsIter(i)
    /\ steps < MaxSteps
    /\ steps' = steps + 1
    /\ LET it == owners[i] IN
       IF it.ptr = it.end
       THEN /\ owners' = owners
            /\ log' = log
            /\ call' = Call("next", "-", i, 0, "None", 0)
       ELSE IF size_of = 0
       THEN /\ owners' = [owners EXCEPT ![i].ptr = wrapping_add(it.ptr, 1)]
            /\ log' = Append(log, YieldEv("next", ElemAt(it, it.ptr)))
            /\ call' = Call("next", "-", i, 0, "Some", ElemAt(it, it.ptr))
       ELSE /\ owners' = [owners EXCEPT ![i].ptr = it.ptr + size_of]
            /\ log' = Append(log, YieldEv("next", ElemAt(it, it.ptr)))
            /\ call' = Call("next", "-", i, 0, "Some", ElemAt(it, it.ptr))
    /\ UNCHANGED <<alloc, raw, status>>

\* DoubleEndedIterator::next_back.  For a zero-sized element type the code moves
\* self.ptr down by one (not self.end) and makes up the value.
next_back(i) ==
    /\ status = "running"
    /\ IsIter(i)
    /\ steps < MaxSteps
    /\ steps' = steps + 1
    /\ LET it == owners[i] IN
       IF it.end = it.ptr
       THEN /\ owners' = owners
            /\ log' = log
            /\ call' = Call("next_back", "-", i, 0, "None", 0)
       ELSE IF size_of = 0
       THEN LET p1 == wrapping_sub(it.ptr, 1)
            IN /\ owners' = [owners EXCEPT ![i].ptr = p1]
               /\ log' = Append(log, YieldEv("next_back", ElemAt(it, p1)))
               /\ call' = Call("next_back", "-", i, 0, "Some", ElemAt(it, p1))
       ELSE LET e1 == it.end - size_of
            IN /\ owners' = [owners EXCEPT ![i].end = e1]
               /\ log' = Append(log, YieldEv("next_back", ElemAt(it, e1)))
               /\ call' = Call("next_back", "-", i, 0, "Some", ElemAt(it, e1))
    /\ UNCHANGED <<alloc, raw, status>>

\* A teardown without the guard: free is called after drop_in_place returned.
drop_SliceIter_NoGuard(i) ==
    /\ status = "running"
    /\ IsIter(i)
    /\ LET it == owners[i]
           d == drop_in_place(as_raw_mut_slice(it), alloc.panics, FALSE)
       IN /\ log' = IF d.res = "ok" THEN log \o d.ev \o <<FreeEv(it.buf)>>
                    ELSE log \o d.ev
          /\ status' = IF d.res = "abort" THEN "aborted" ELSE "running"
          /\ call' = Call("drop_iter", "-", i, 0, d.res, it.buf)
    /\ owners' = [owners EXCEPT ![i] = NoOwner]
    /\ UNCHANGED <<alloc, raw, steps>>

\* A teardown whose guard frees the cursor instead of buf.
drop_SliceIter_FreePtr(i) ==
    /\ status = "running"
    /\ IsIter(i)
    /\ LET it == owners[i]
           d == drop_in_place(as_raw_mut_slice(it), alloc.panics, FALSE)
       IN /\ log' = IF d.res = "abort" THEN log \o d.ev
                    ELSE log \o d.ev \o <<FreeEv(it.ptr)>>
          /\ status' = IF d.res = "abort" THEN "aborted" ELSE "running"
          /\ call' = Call("drop_iter", "-", i, 0, d.res, it.buf)
    /\ owners' = [owners EXCEPT ![i] = NoOwner]
    /\ UNCHANGED <<alloc, raw, steps>>

\* Drop for SliceIter<T>: the DeallocGuard is made first, then the remaining
\* elements are dropped in place; the guard's drop calls sys::free(buf) when the
\* scope is left, by return or by unwinding.
drop_SliceIter(i) ==
    /\ status = "running"
    /\ IsIter(i)
    /\ LET it == owners[i]
           d == drop_in_place(as_raw_mut_slice(it), alloc.panics, FALSE)
       IN /\ log' = IF d.res = "abort" THEN log \o d.ev
                    ELSE log \o d.ev \o <<FreeEv(it.buf)>>
          /\ status' = IF d.res = "abort" THEN "aborted" ELSE "running"
          /\ call' = Call("drop_iter", "-", i, 0, d.res, it.buf)
    /\ owners' = forget(owners, i)
    /\ UNCHANGED <<alloc, raw, steps>>

\* The backward step that last makes on its own iterator (DoubleEndedIterator::
\* next_back on `mut self`): the iterator after the step and what was yielded.
\* For a zero-sized element type the code moves ptr down by one, not end.
next_back_of(it) ==
    IF it.end = it.ptr
    THEN [it |-> it, res |-> "None", elem |-> 0]
    ELSE IF size_of = 0
    THEN LET p1 == wrapping_sub(it.ptr, 1)
         IN [it |-> [it EXCEPT !.ptr = p1], res |-> "Some", elem |-> ElemAt(it, p1)]
    ELSE LET e1 == it.end - size_of
         IN [it |-> [it EXCEPT !.end = e1], res |-> "Some", elem |-> ElemAt(it, e1)]

\* Iterator::last(mut self): self.next_back(), then self goes out of scope: the
\* teardown of Drop for SliceIter runs on what the step left.  The caller sees
\* Some(element) or None, or the unwinding of a failed element destructor.
last(i) ==
    /\ status = "running"
    /\ IsIter(i)
    /\ LET b == next_back_of(owners[i])
           d == drop_in_place(as_raw_mut_slice(b.it), alloc.panics, FALSE)
           y == IF b.res = "Some" THEN <<YieldEv("next_back", b.elem)>> ELSE <<>>
       IN /\ log' = IF d.res = "abort" THEN log \o y \o d.ev
                    ELSE log \o y \o d.ev \o <<FreeEv(b.it.buf)>>
          /\ status' = IF d.res = "abort" THEN "aborted" ELSE "running"
          /\ call' = Call("last", "-", i, 0, IF d.res = "ok" THEN b.res ELSE d.res,
                          IF d.res = "ok" THEN b.elem ELSE 0)
    /\ owners' = forget(owners, i)
    /\ UNCHANGED <<alloc, raw, steps>>

\* Iterator::count(self): self.len(), then self goes out of scope: the teardown
\* of Drop for SliceIter runs on the untouched iterator.
count(i) ==
    /\ status = "running"
    /\ IsIter(i)
    /\ LET it == owners[i]
           m == len(it)
           d == drop_in_place(as_raw_mut_slice(it), alloc.panics, FALSE)
       IN /\ log' = IF d.res = "abort" THEN log \o d.ev
                    ELSE log \o d.ev \o <<FreeEv(it.buf)>>
          /\ status' = IF d.res = "abort" THEN "aborted" ELSE "running"
          /\ call' = Call("count", "-", i, 0, d.res, IF d.res = "ok" THEN m ELSE 0)
    /\ owners' = forget(owners, i)
    /\ UNCHANGED <<alloc, raw, steps>>

\* ------------------------------------------------------------------- Next

Next ==
    \/ from_raw
    \/ from_ptr
    \/ \E i \in Slots : leak(i)
    \/ \E i \in Slots : into_raw(i)
    \/ \E i \in Slots : into_pin(i)
    \/ \E i \in Slots : into_any(i)
    \/ \E i \in Slots : into_any_send(i)
    \/ \E i \in Slots, U \in Types : downcast(i, U)
    \/ \E i \in Slots : from_str(i)
    \/ \E i \in Slots : drop_Malloced(i)
    \/ \E i \in Slots : into_iter(i)
    \/ \E i \in Slots : next(i)
    \/ \E i \in Slots : next_back(i)
    \/ \E i \in Slots : drop_SliceIter(i)
    \/ \E i \in Slots : last(i)
    \/ \E i \in Slots : count(i)

Spec == Init /\ [][Next]_vars

\* ---------------------------------------------------- Malloced::<[T]>::alloc

\* An element size large enough that two elements overflow usize.
BigSize == WordMod \div 2

\* The null pointer.
Null == 0

\* The calls of Malloced::<[T]>::alloc(values): values.len() elements of a Copy
\* type (no destructors) of some size, and the answer sys::malloc gives when it
\* is called (`base`: null or an address).
AllocCalls ==
    { [base |-> m, kind |-> "slice", tid |-> "slice", n |-> n, size |-> s,
       panics |-> {}, bytes |-> <<>>] :
        m \in Bases \cup {Null}, n \in 0..MaxLen, s \in ElemSizes \cup {BigSize} }

InitAlloc ==
    /\ alloc \in AllocCalls
    /\ owners = [s \in Slots |-> NoOwner]
    /\ raw = NoRaw
    /\ log = <<>>
    /\ call = [op |-> "init", arg |-> "-", slot |-> 0, out |-> 0, res |-> "ok", ret |-> 0,
               prev |-> "init"]
    /\ steps = 0
    /\ status = "running"

MallocEv(size) == <<"malloc", size>>
WriteEv(i) == <<"write", i>>

\* usize::checked_mul: the product, or None (-1) when it does not fit in usize.
checked_mul(a, b) == IF a * b < WordMod THEN a * b ELSE -1

\* usize::max.
max(a, b) == IF a >= b THEN a ELSE b

\* An alloc that does not test the pointer malloc returned.
Malloced_alloc_NoNullCheck ==
    /\ status = "running"
    /\ call.op = "init"
    /\ LET alloc_size == checked_mul(alloc.n, max(size_of, 1))
           buf == alloc.base
       IN IF alloc_size = -1
          THEN /\ owners' = owners
               /\ log' = log
               /\ call' = Call("alloc", "-", 0, 0, "None", 0)
          ELSE /\ owners' = Place(owners, Malloced(Ptr(buf, "slice", NoVt, alloc.n), FALSE))
               /\ log' = <<MallocEv(alloc_size)>> \o [j \in 1..alloc.n |-> WriteEv(j - 1)]
               /\ call' = Call("alloc", "-", 0, FreeSlot(owners), "Some", buf)
    /\ UNCHANGED <<alloc, raw, steps, status>>

\* Malloced::<[T]>::alloc(values): None when the byte size overflows or malloc
\* returns null; otherwise every value is written to its element (element i is
\* at byte i for a zero-sized type, at buf.add(i) otherwise) and the handle is
\* slice_from_raw_parts(buf, values.len()).
Malloced_alloc ==
    /\ status = "running"
    /\ call.op = "init"
    /\ LET value_size == size_of
           alloc_size == checked_mul(alloc.n, max(value_size, 1))
           buf == alloc.base
           it == SliceIter(buf, buf, buf)
           at(i) == IF value_size = 0 THEN buf + i ELSE buf + i * value_size
       IN IF alloc_size = -1
          THEN /\ owners' = owners
               /\ log' = log
               /\ call' = Call("alloc", "-", 0, 0, "None", 0)
          ELSE IF buf = Null
          THEN /\ owners' = owners
               /\ log' = <<MallocEv(alloc_size)>>
               /\ call' = Call("alloc", "-", 0, 0, "None", 0)
          ELSE /\ owners' = Place(owners, Malloced(Ptr(buf, "slice", NoVt, alloc.n), FALSE))
               /\ log' = <<MallocEv(alloc_size)>>
                            \o [j \in 1..alloc.n |-> WriteEv(ElemAt(it, at(j - 1)))]
               /\ call' = Call("alloc", "-", 0, FreeSlot(owners), "Some", buf)
    /\ UNCHANGED <<alloc, raw, steps, status>>

NextAlloc ==
    \/ Malloced_alloc
    \/ \E i \in Slots : drop_Malloced(i)
    \/ \E i \in Slots : into_iter(i)
    \/ \E i \in Slots : next(i)
    \/ \E i \in Slots : drop_SliceIter(i)

SpecAlloc == InitAlloc /\ [][NextAlloc]_vars

\* ------------------------------------------------------------ observations

\* The live owners of the allocation.
Live == {i \in Slots : owners[i] # NoOwner}

\* How many recorded calls are of kind k / are exactly the call ev.
Count(l, k) == Cardinality({j \in 1..Len(l) : l[j][1] = k})
CountOf(l, ev) == Cardinality({j \in 1..Len(l) : l[j] = ev})

\* The destructor runs of a pointee all of whose destructors return.
DropsOf(h) == [j \in 1..Len(PointeeElems(h)) |-> DropEv(PointeeElems(h)[j])]

\* ------------------------------------------------------------------ claims

\* C1: once the final owner of an adopted allocation has been dropped (no owner
\* and no raw pointer is left, the process still runs), sys::free has been
\* called exactly once, on the original address; while the allocation is leaked
\* (a raw pointer and no owner), free has been called zero times; free is never
\* called twice.
C1_FreeExactlyOnce ==
    /\ (status = "running" /\ Live = {} /\ raw = NoRaw)
          => (Count(log, "free") = 1 /\ CountOf(log, FreeEv(alloc.base)) = 1)
    /\ (Live = {} /\ raw # NoRaw) => Count(log, "free") = 0
    /\ Count(log, "free") <= 1

\* C2: every destructor run precedes every call of free: no pointee destructor
\* runs after the allocation was freed, and when a release has freed, the free of
\* the base address is the last call it made.
C2_DestroyBeforeFree ==
    /\ \A j, k \in 1..Len(log) : (log[j][1] = "free" /\ log[k][1] = "drop") => k < j
    /\ (call.op \in {"drop", "drop_iter"} /\ Count(log, "free") > 0)
          => log[Len(log)] = FreeEv(alloc.base)

C2_Witness ==
    /\ call.op = "drop_iter"
    /\ Count(log, "drop") >= 2
    /\ Count(log, "free") = 1

\* C3: after k forward steps and no backward step, dropping the SliceIter of an
\* n element slice has called free exactly once, on the base address, has
\* destroyed each of the n-k elements never yielded exactly once, and has
\* destroyed none of the k elements yielded (each of which was yielded once).
C3_PrefixThenDrop ==
    (call.op = "drop_iter" /\ status = "running" /\ Count(log, "next_back") = 0) =>
        LET k == Count(log, "next") IN
        /\ k <= alloc.n
        /\ Count(log, "free") = 1
        /\ CountOf(log, FreeEv(alloc.base)) = 1
        /\ Count(log, "drop") = alloc.n - k
        /\ \A e \in 0..(alloc.n - 1) :
              IF e < k
              THEN CountOf(log, YieldEv("next", e)) = 1 /\ CountOf(log, DropEv(e)) = 0
              ELSE CountOf(log, YieldEv("next", e)) = 0 /\ CountOf(log, DropEv(e)) = 1

C3_Witness ==
    /\ call.op = "drop_iter"
    /\ status = "running"
    /\ Count(log, "next_back") = 0
    /\ Count(log, "next") = 1
    /\ alloc.n = 3

\* C4: when the destructor of one remaining element unwinds during the teardown
\* of a SliceIter, free is still called exactly once, on the base address, after
\* the element destructors, and the teardown ends by unwinding (the failure
\* reaches the caller); it ends by unwinding only when a destructor unwound.
C4_GuardFreesOnUnwind ==
    call.op = "drop_iter" =>
        /\ (call.res = "unwind") <=> (Count(log, "panic") = 1)
        /\ call.res = "unwind" =>
              /\ Count(log, "free") = 1
              /\ log[Len(log)] = FreeEv(alloc.base)

C4_Witness ==
    /\ call.op = "drop_iter"
    /\ call.res = "unwind"
    /\ Count(log, "drop") >= 2

\* C5: the remaining count of a SliceIter starts at the slice's length, goes down
\* by exactly one on every step (next or next_back) that yields an element, and
\* is zero exactly when a step returns None, for every element size.
C5_LenDownByOne ==
    [][ /\ call'.op = "into_iter" => len(owners'[call'.out]) = owners[call'.slot].len
        /\ call'.op \in {"next", "next_back"} =>
              /\ (call'.res = "None") <=> (len(owners[call'.slot]) = 0)
              /\ call'.res = "Some" =>
                    len(owners'[call'.slot]) = len(owners[call'.slot]) - 1
              /\ call'.res = "None" => len(owners'[call'.slot]) = 0
      ]_vars

\* C6: downcast::<U> of a dynamic handle returns Ok exactly when U is the
\* concrete type the handle was erased from; the handle returned has the
\* address of the handle passed, typed U in Ok and still dynamic in Err.
C6_DowncastCorrect ==
    [][ call'.op = "downcast" =>
          LET h == owners[call'.slot]
              r == owners'[call'.out]
          IN /\ h.ty \in DynTypes
             /\ (call'.res = "Ok") <=> (call'.arg = alloc.tid)
             /\ r.kind = "Malloced"
             /\ r.addr = h.addr
             /\ r.addr = alloc.base
             /\ call'.res = "Ok" => r.ty = call'.arg
             /\ call'.res = "Err" => r.ty = h.ty
      ]_vars

C6_Witness ==
    /\ call.op = "downcast"
    /\ call.res = "Ok"
    /\ call.prev = "downcast"
    /\ owners[call.out].ty = alloc.tid

\* C7: a failed downcast changes nothing (no destructor, no free, the same
\* dynamic handle with the original type identity), so that a downcast to the
\* right type after it succeeds and a drop after it destroys the pointee once
\* and frees the address once.
C7_FailedDowncastNoEffect ==
    [][ /\ (call'.op = "downcast" /\ call'.res = "Err") =>
              /\ owners' = owners
              /\ log' = log
              /\ raw' = raw
              /\ owners'[call'.out].vt = alloc.tid
        /\ (call.op = "downcast" /\ call.res = "Err" /\ call'.op = "downcast"
              /\ call'.arg = alloc.tid) => call'.res = "Ok"
        /\ (call.op = "downcast" /\ call.res = "Err" /\ call'.op = "drop") =>
              log' = <<DropEv(0), FreeEv(alloc.base)>>
      ]_vars

\* C8: into_raw runs no destructor and frees nothing, from_raw of its result
\* gives a handle equal to the one consumed (same address, the only owner), and
\* dropping that handle destroys the pointee once and frees the address once.
C8_RawRoundTrip ==
    [][ /\ call'.op = "into_raw" =>
              /\ log' = log
              /\ raw' = PtrOf(owners[call'.slot])
              /\ Live' = {}
        /\ (call.op = "into_raw" /\ call'.op = "from_raw") =>
              /\ log' = log
              /\ owners'[call'.out] = Malloced(raw, FALSE)
              /\ owners'[call'.out].addr = call.ret
              /\ Live' = {call'.out}
        /\ (call.op = "from_raw" /\ call.prev = "into_raw" /\ call'.op = "drop") =>
              log' = log \o DropsOf(owners[call'.slot])
                         \o <<FreeEv(owners[call'.slot].addr)>>
      ]_vars

\* C9: into_raw and leak consume the handle, return its address, run no
\* destructor and call no free; while no owner exists (until the address is
\* adopted again, by from_raw or by from_ptr, which calls it) nothing is
\* destroyed and nothing is freed.
C9_LeakIsPure ==
    [][ /\ call'.op \in {"into_raw", "leak"} =>
              /\ log' = log
              /\ alloc' = alloc
              /\ status' = status
              /\ call'.ret = owners[call'.slot].addr
              /\ owners'[call'.slot] = NoOwner
              /\ raw' = PtrOf(owners[call'.slot])
        /\ Live = {} =>
              (log' = log /\ (Live' # {} => call'.op \in {"from_raw", "from_ptr"}))
      ]_vars

C9_Witness ==
    /\ call.op = "from_raw"
    /\ call.prev = "leak"
    /\ Live # {}

\* C10: at most one owner of the allocation is live in every state; every
\* consuming conversion ends its input owner, without a destructor run or a
\* free, in the step in which it returns its output owner; only from_raw (also
\* when called by from_ptr) adds an owner.
C10_SingleOwner ==
    [][ /\ Cardinality(Live) <= 1
        /\ Cardinality(Live') <= 1
        /\ call'.op \in {"into_pin", "into_any", "into_any_send", "downcast",
                         "from_str", "into_iter"} =>
              /\ log' = log
              /\ Live' = {call'.out}
              /\ call'.slot \in Live
        /\ Cardinality(Live') > Cardinality(Live) => call'.op \in {"from_raw", "from_ptr"}
      ]_vars

C10_Witness ==
    /\ call.op = "into_iter"
    /\ call.prev = "from_str"
    /\ Cardinality(Live) = 1

\* C11: into_any and into_any_send consume the typed handle and return a dynamic
\* handle (dyn Any, dyn Any + Send + Sync) with the same address that carries the
\* identity of the concrete type of the handle consumed; no destructor runs,
\* free is not called and the allocation is unchanged.
C11_ErasureIsPure ==
    [][ call'.op \in {"into_any", "into_any_send"} =>
          LET h == owners[call'.slot]
              r == owners'[call'.out]
          IN /\ h.ty \in Types
             /\ h.ty = alloc.tid
             /\ r.kind = "Malloced"
             /\ r.addr = h.addr
             /\ r.vt = h.ty
             /\ r.ty = (IF call'.op = "into_any" THEN "dynAny" ELSE "dynAnySendSync")
             /\ Live' = {call'.out}
             /\ log' = log
             /\ alloc' = alloc
             /\ raw' = raw
      ]_vars

C11_Witness ==
    /\ call.op = "into_any_send"
    /\ owners[call.out].ty = "dynAnySendSync"
    /\ owners[call.out].vt = alloc.tid
    /\ log = <<>>

\* C12: immediately after into_iter on a slice handle of n elements len() is n,
\* for every element size: end is base + n bytes for a zero-sized type, where
\* len is the byte distance itself, and base + n * size otherwise, where len is
\* the byte distance divided by the size.
C12_LenAfterIntoIter ==
    [][ call'.op = "into_iter" =>
          LET n == owners[call'.slot].len
              it == owners'[call'.out]
          IN /\ n = alloc.n
             /\ len(it) = n
             /\ it.ptr = it.buf
             /\ size_of = 0 => wrapping_sub(it.end, it.ptr) = n
             /\ size_of # 0 => wrapping_sub(it.end, it.ptr) = n * size_of
      ]_vars

C12_Witness ==
    /\ call.op = "into_iter"
    /\ size_of = 0
    /\ alloc.n = 2
    /\ len(owners[call.out]) = 2

\* C13: from_ptr of a buffer whose first zero byte is at index k gives a handle
\* at the buffer's address that covers k+1 bytes, the last of them the zero
\* byte, and whose to_bytes are the k non-zero bytes before it; no call is made
\* by from_ptr; a drop of the handle calls free exactly once, on that address.
C13_CStrFromPtr ==
    [][ /\ call'.op = "from_ptr" =>
              LET r == owners'[call'.out] IN
              /\ r.kind = "Malloced"
              /\ r.ty = "CStr"
              /\ r.addr = alloc.base
              /\ r.addr = raw.addr
              /\ r.len >= 1
              /\ r.len <= Len(alloc.bytes)
              /\ alloc.bytes[r.len] = 0
              /\ \A j \in 1..(r.len - 1) : alloc.bytes[j] # 0
              /\ Len(to_bytes(r)) = r.len - 1
              /\ \A j \in 1..(r.len - 1) : to_bytes(r)[j] = alloc.bytes[j]
              /\ log' = log
        /\ (call'.op = "drop" /\ owners[call'.slot].ty = "CStr") =>
              /\ Count(log, "free") = 0
              /\ Count(log', "free") = 1
              /\ log'[Len(log')] = FreeEv(alloc.base)
              /\ call'.res = "ok"
      ]_vars

C13_Witness ==
    /\ call.op = "drop"
    /\ call.prev = "from_ptr"
    /\ alloc.bytes = <<104, 105, 0>>
    /\ Count(log, "drop") = 3
    /\ log[Len(log)] = FreeEv(alloc.base)

\* The distance of two neighbouring elements as the iterator counts it: the
\* element size, one for a zero-sized type.
Stride == IF size_of = 0 THEN 1 ELSE size_of

\* The end that into_iter sets for the allocation.
InitialEnd == alloc.base + alloc.n * Stride

\* The elements yielded so far, by either end.
Yields(l) == Count(l, "next") + Count(l, "next_back")

\* C15: for every element size, a SliceIter satisfies base <= cursor <= end, with
\* base the address of the allocation and end never above its initial value.
C15_CursorInBounds ==
    \A i \in Slots :
        IsIter(i) =>
            /\ owners[i].buf = alloc.base
            /\ owners[i].buf <= owners[i].ptr
            /\ owners[i].ptr <= owners[i].end
            /\ owners[i].end <= InitialEnd

\* C16: after any interleaving of forward and backward steps and the drop of the
\* SliceIter, each of the n elements has left the iterator exactly once, either
\* yielded once (by one of next and next_back) or destroyed once at teardown,
\* and nothing else was yielded or destroyed.
C16_EachElementOnce ==
    (call.op = "drop_iter" /\ status = "running") =>
        /\ \A e \in 0..(alloc.n - 1) :
              CountOf(log, YieldEv("next", e)) + CountOf(log, YieldEv("next_back", e))
                  + CountOf(log, DropEv(e)) = 1
        /\ Yields(log) + Count(log, "drop") = alloc.n

\* C17: next_back on a non-exhausted SliceIter moves end down by one element (one
\* unit for a zero-sized type), yields the element at the new end and leaves
\* cursor and base unchanged; on an exhausted one it returns None and changes
\* nothing.
C17_NextBackSymmetric ==
    [][ call'.op = "next_back" =>
          LET it == owners[call'.slot]
              it2 == owners'[call'.slot]
          IN IF it.ptr = it.end
             THEN /\ call'.res = "None"
                  /\ it2 = it
                  /\ log' = log
             ELSE /\ call'.res = "Some"
                  /\ it2.end = it.end - Stride
                  /\ it2.ptr = it.ptr
                  /\ it2.buf = it.buf
                  /\ call'.ret = ElemAt(it, it2.end)
                  /\ log' = Append(log, YieldEv("next_back", ElemAt(it, it2.end)))
      ]_vars

\* C18: next on a non-exhausted SliceIter yields the element at cursor and moves
\* cursor up by one element, leaving end unchanged; on an exhausted one next and
\* next_back return None and change nothing; the iterator of an n element slice
\* is exhausted exactly when n elements have been yielded.
C18_FusedAfterN ==
    [][ /\ call'.op = "next" =>
              LET it == owners[call'.slot]
                  it2 == owners'[call'.slot]
              IN IF it.ptr = it.end
                 THEN call'.res = "None" /\ it2 = it /\ log' = log
                 ELSE /\ call'.res = "Some"
                      /\ call'.ret = ElemAt(it, it.ptr)
                      /\ it2.ptr = it.ptr + Stride
                      /\ it2.end = it.end
                      /\ it2.buf = it.buf
        /\ (call'.op = "next_back" /\ owners[call'.slot].ptr = owners[call'.slot].end) =>
              call'.res = "None" /\ owners' = owners /\ log' = log
        /\ \A i \in Slots :
              owners'[i].kind = "SliceIter" =>
                  ((owners'[i].ptr = owners'[i].end) <=> (Yields(log') = alloc.n))
      ]_vars

\* C19: the address passed to free at the teardown of a SliceIter is buf, the
\* base address recorded by into_iter; no step changes buf; the cursor, once it
\* has moved off the base, is not the address freed.
C19_FreesBuf ==
    [][ /\ call'.op = "into_iter" =>
              /\ owners'[call'.out].buf = owners[call'.slot].addr
              /\ owners'[call'.out].buf = alloc.base
        /\ call'.op \in {"next", "next_back"} =>
              owners'[call'.slot].buf = owners[call'.slot].buf
        /\ (call'.op = "drop_iter" /\ call'.res # "abort") =>
              /\ log'[Len(log')] = FreeEv(owners[call'.slot].buf)
              /\ owners[call'.slot].buf = alloc.base
              /\ owners[call'.slot].ptr # owners[call'.slot].buf =>
                    log'[Len(log')] # FreeEv(owners[call'.slot].ptr)
              /\ Count(log', "free") = 1
      ]_vars

C19_Witness ==
    /\ call.op = "drop_iter"
    /\ Count(log, "next") >= 1
    /\ Count(log, "next_back") >= 1
    /\ log[Len(log)] = FreeEv(alloc.base)

\* The call seen is an alloc that returned None.
overflow_or_null_seen(c) == c.op = "alloc" /\ c.res = "None"

\* C20: alloc returns None exactly when the byte size len * max(size, 1) does not
\* fit in usize or malloc returns null, and then no handle exists and free is
\* never called; otherwise it returns a handle at the non-null address malloc
\* returned, of values.len() elements, each written once, in order.
C20_AllocNoneOrHandle ==
    [][ /\ call'.op = "alloc" =>
              LET overflow == alloc.n * (IF alloc.size = 0 THEN 1 ELSE alloc.size) >= WordMod
              IN /\ (call'.res = "None") <=> (overflow \/ alloc.base = Null)
                 /\ overflow => log' = <<>>
                 /\ call'.res = "None" => (Live' = {} /\ Count(log', "write") = 0)
                 /\ call'.res = "Some" =>
                       /\ Live' = {call'.out}
                       /\ owners'[call'.out].kind = "Malloced"
                       /\ owners'[call'.out].ty = "slice"
                       /\ owners'[call'.out].addr = alloc.base
                       /\ owners'[call'.out].addr # Null
                       /\ owners'[call'.out].len = alloc.n
                       /\ Count(log', "write") = alloc.n
                       /\ \A e \in 0..(alloc.n - 1) : log'[e + 2] = WriteEv(e)
        /\ (overflow_or_null_seen(call) \/ overflow_or_null_seen(call')) =>
              (Live' = {} /\ Count(log', "free") = 0)
      ]_vars

C20_Witness ==
    /\ call.op = "alloc"
    /\ call.res = "None"
    /\ alloc.base # Null
    /\ alloc.n = 2
    /\ Live = {}

\* C21: a drop of the handle (Malloced, not SliceIter) calls free exactly when
\* the pointee's destructor returned normally; when the destructor failed, free
\* is not called by that drop and the allocation's count of free calls is zero
\* then and in every later state (never more than one in any case).
C21_FreeOnlyOnNormalReturn ==
    [][ /\ call'.op = "drop" =>
              /\ call'.res = "ok" =>
                    /\ Count(log', "free") = Count(log, "free") + 1
                    /\ log'[Len(log')] = FreeEv(call'.ret)
              /\ call'.res # "ok" =>
                    /\ Count(log', "free") = 0
                    /\ Count(log', "panic") >= 1
        /\ (call.op = "drop" /\ call.res # "ok") => Count(log', "free") = 0
        /\ Count(log', "free") <= 1
      ]_vars

C21_Witness ==
    /\ call.op = "drop"
    /\ call.res = "unwind"
    /\ alloc.kind = "slice"
    /\ alloc.n >= 2
    /\ Count(log, "drop") >= 1
    /\ Count(log, "free") = 0
    /\ Live = {}

\* The elements of the slice not yet yielded: those from Lo up to Hi - 1.
Lo(l) == Count(l, "next")
Hi(l) == alloc.n - Count(l, "next_back")

\* C22: last on an iterator with m >= 1 remaining elements returns the element at
\* the back of the remaining range by one backward step, destroys each of the
\* other m - 1 remaining elements once and frees the base address once; on an
\* exhausted iterator it returns None and frees the base address once.  count
\* returns m, yields nothing, and all m remaining elements are destroyed once at
\* teardown.  For every element size, zero included.
C22_LastAndCount ==
    [][ /\ (call'.op = "last" /\ status' = "running") =>
              LET m == Hi(log) - Lo(log) IN
              /\ Count(log', "free") = 1
              /\ log'[Len(log')] = FreeEv(alloc.base)
              /\ m = 0 => (call'.res \in {"None"} /\ Len(log') = Len(log) + 1)
              /\ m >= 1 =>
                    /\ call'.res \in {"Some", "unwind"}
                    /\ call'.res = "Some" => call'.ret = Hi(log) - 1
                    /\ Yields(log') = Yields(log) + 1
                    /\ log'[Len(log) + 1] = YieldEv("next_back", Hi(log) - 1)
                    /\ Count(log', "next") = Count(log, "next")
                    /\ Count(log', "drop") = m - 1
                    /\ \A e \in Lo(log)..(Hi(log) - 2) : CountOf(log', DropEv(e)) = 1
        /\ (call'.op = "count" /\ status' = "running") =>
              LET m == Hi(log) - Lo(log) IN
              /\ call'.res = "ok" => call'.ret = m
              /\ Yields(log') = Yields(log)
              /\ Count(log', "drop") = m
              /\ \A e \in Lo(log)..(Hi(log) - 1) : CountOf(log', DropEv(e)) = 1
              /\ Count(log', "free") = 1
              /\ log'[Len(log')] = FreeEv(alloc.base)
      ]_vars

====
